---- MODULE Spec2Model ----
(***************************************************************************)
(* Intent Apparatus: the command interpreter (intent_parser.py), the       *)
(* action dispatcher and the session around it (app.py, demo.py) and the   *)
(* actuator engines (automation_engine.py, mock_automation.py).            *)
(*                                                                         *)
(* Text is modelled character by character: a command is a TLA+ string,    *)
(* the rule table holds the regular expressions of the source as syntax    *)
(* trees and re_search is a backtracking matcher with Python's priorities  *)
(* (leftmost match, greedy repetition, an optional group tried first).     *)
(***************************************************************************)
EXTENDS Integers, Sequences, FiniteSets, TLC

VARIABLES
    automation_engine,  \* the engine the session drives: "AutomationEngine" or "MockAutomationEngine"
    interface,          \* which session class runs: "IntentApparatus" (app.py) or "SimpleWebInterface" (demo.py)
    command,            \* the argument of the last interpreter / session call
    parsed_intent,      \* what parse_command returned for it (None or a ParsedIntent)
    calls,              \* the actuator calls (and sleeps) of the last call, in order, with their outcomes
    result,             \* the ActionResult _execute_action returned (None when it was not run)
    returned,           \* what process_command returned, or the exception it let through
    execution_history,  \* self.execution_history: sequence of <<command, ActionResult>>
    history_output,     \* what get_execution_history returned, when the last call was that method
    in_flight,          \* overlapping process_command calls, in arrival order, each with its position
    parser,             \* the IntentParser object: its field patterns
    listed_examples     \* what get_action_examples returned, when it has been called

vars == <<interface, automation_engine, command, parsed_intent, calls, result, returned,
          execution_history, history_output, in_flight, parser, listed_examples>>

(***************************************************************************)
(* Bounds of the model.                                                    *)
(***************************************************************************)
\* int() refuses a digit string longer than this (ValueError).  CPython's
\* limit is 4300 digits; the model keeps the mechanism and scales the length.
IntMaxStrDigits == 4
\* The session specification stops recording after this many history entries.
MaxHistory == 2
\* The history specification stops recording after this many history entries.
HistoryLimit == 11
\* The overlap specification admits this many process_command calls.
MaxCallers == 3

(***************************************************************************)
(* Python values.                                                          *)
(***************************************************************************)
None == [none |-> TRUE]
EmptyDict == [k \in {} |-> 0]

(***************************************************************************)
(* str: characters, lower(), upper(), strip().                             *)
(***************************************************************************)
Char(s, i) == SubSeq(s, i, i)
Substr(s, i, j) == IF i > j THEN "" ELSE SubSeq(s, i, j)

UpperLetters == "ABCDEFGHIJKLMNOPQRSTUVWXYZ"
LowerLetters == "abcdefghijklmnopqrstuvwxyz"
DigitChars == "0123456789"
UpperSet == {Char(UpperLetters, i) : i \in 1..26}
LowerSet == {Char(LowerLetters, i) : i \in 1..26}
DigitSet == {Char(DigitChars, i) : i \in 1..10}
Whitespace == {" ", "\t"}
Quotes == {"\"", "'"}
ToLower == [c \in UpperSet |-> Char(LowerLetters, CHOOSE i \in 1..26 : Char(UpperLetters, i) = c)]
ToUpper == [c \in LowerSet |-> Char(UpperLetters, CHOOSE i \in 1..26 : Char(LowerLetters, i) = c)]
DigitValue == [c \in DigitSet |-> (CHOOSE i \in 1..10 : Char(DigitChars, i) = c) - 1]

LowerChar(c) == IF c \in UpperSet THEN ToLower[c] ELSE c
UpperChar(c) == IF c \in LowerSet THEN ToUpper[c] ELSE c

RECURSIVE lower(_)
lower(s) == IF s = "" THEN "" ELSE LowerChar(Char(s, 1)) \o lower(Substr(s, 2, Len(s)))

RECURSIVE upper(_)
upper(s) == IF s = "" THEN "" ELSE UpperChar(Char(s, 1)) \o upper(Substr(s, 2, Len(s)))

RECURSIVE lstrip(_)
lstrip(s) ==
    IF s # "" /\ Char(s, 1) \in Whitespace THEN lstrip(Substr(s, 2, Len(s))) ELSE s

RECURSIVE rstrip(_)
rstrip(s) ==
    IF s # "" /\ Char(s, Len(s)) \in Whitespace THEN rstrip(Substr(s, 1, Len(s) - 1)) ELSE s

strip(s) == rstrip(lstrip(s))

(***************************************************************************)
(* int(): the value of a digit string; ValueError beyond the digit limit.  *)
(***************************************************************************)
int_raises(s) == Len(s) > IntMaxStrDigits

\* Variant: the value is held below the screen width.
RECURSIVE int_within_screen(_)
int_within_screen(s) ==
    IF s = "" THEN 0
    ELSE LET v == 10 * int_within_screen(Substr(s, 1, Len(s) - 1)) + DigitValue[Char(s, Len(s))]
         IN IF v > 1919 THEN 1919 ELSE v

RECURSIVE int(_)
int(s) ==
    IF s = "" THEN 0
    ELSE 10 * int(Substr(s, 1, Len(s) - 1)) + DigitValue[Char(s, Len(s))]

(***************************************************************************)
(* re: syntax trees of the patterns and the backtracking matcher.          *)
(* A pattern is a sequence of nodes; Group(g, r) brackets r with markers   *)
(* that record where capture group g begins and ends.                      *)
(***************************************************************************)
Lit(s) == <<[t |-> "lit", s |-> s]>>
Plus(c) == <<[t |-> "rep", c |-> c, min |-> 1]>>        \* \s+  \d+  \w+  [^"']+
Star(c) == <<[t |-> "rep", c |-> c, min |-> 0]>>        \* \s*
One(c) == <<[t |-> "one", c |-> c]>>                    \* ["']
Opt(r) == <<[t |-> "opt", r |-> r]>>                    \* (?:r)?
Alt(a, b) == <<[t |-> "alt", a |-> a, b |-> b]>>        \* (?:a|b)
Group(g, r) == <<[t |-> "open", g |-> g]>> \o r \o <<[t |-> "close", g |-> g]>>

InClass(c, ch) ==
    CASE c = "s" -> ch \in Whitespace
      [] c = "d" -> ch \in DigitSet
      [] c = "w" -> ch \in LowerSet \cup UpperSet \cup DigitSet \cup {"_"}
      [] c = "quote" -> ch \in Quotes
      [] c = "notquote" -> ch \notin Quotes

\* Length of the longest run of class-c characters of s that starts at pos.
RECURSIVE RunLen(_, _, _)
RunLen(s, pos, c) ==
    IF pos <= Len(s) /\ InClass(c, Char(s, pos)) THEN 1 + RunLen(s, pos + 1, c) ELSE 0

\* re.IGNORECASE: the patterns are lower case, the subject is case-folded.
LitAt(s, pos, lit) ==
    /\ pos + Len(lit) - 1 <= Len(s)
    /\ LowerChar(Char(s, pos)) = Char(lit, 1)
    /\ lower(SubSeq(s, pos, pos + Len(lit) - 1)) = lit

NoCaps == [g \in 1..2 |-> [b |-> 0, e |-> 0]]
MatchFail == [ok |-> FALSE]

RECURSIVE MatchHere(_, _, _, _), MatchRep(_, _, _, _, _, _)
MatchHere(re, s, pos, caps) ==
    IF re = <<>> THEN [ok |-> TRUE, end |-> pos, caps |-> caps]
    ELSE LET h == Head(re)
             rest == Tail(re)
         IN CASE h.t = "lit" ->
                     IF LitAt(s, pos, h.s) THEN MatchHere(rest, s, pos + Len(h.s), caps)
                     ELSE MatchFail
              [] h.t = "one" ->
                     IF pos <= Len(s) /\ InClass(h.c, Char(s, pos))
                     THEN MatchHere(rest, s, pos + 1, caps)
                     ELSE MatchFail
              [] h.t = "rep" -> MatchRep(h.min, rest, s, pos, caps, RunLen(s, pos, h.c))
              [] h.t = "opt" ->
                     LET m == MatchHere(h.r \o rest, s, pos, caps)
                     IN IF m.ok THEN m ELSE MatchHere(rest, s, pos, caps)
              [] h.t = "alt" ->
                     LET m == MatchHere(h.a \o rest, s, pos, caps)
                     IN IF m.ok THEN m ELSE MatchHere(h.b \o rest, s, pos, caps)
              [] h.t = "open" ->
                     MatchHere(rest, s, pos, [caps EXCEPT ![h.g] = [b |-> pos, e |-> 0]])
              [] h.t = "close" ->
                     MatchHere(rest, s, pos, [caps EXCEPT ![h.g].e = pos])

\* Greedy repetition: the longest run first, then one character less, ...
MatchRep(min, rest, s, pos, caps, k) ==
    IF k < min THEN MatchFail
    ELSE LET m == MatchHere(rest, s, pos + k, caps)
         IN IF m.ok THEN m ELSE MatchRep(min, rest, s, pos, caps, k - 1)

\* re.search: the match at the leftmost position that has one.
RECURSIVE SearchFrom(_, _, _)
SearchFrom(re, s, pos) ==
    IF pos > Len(s) + 1 THEN MatchFail
    ELSE LET m == MatchHere(re, s, pos, NoCaps)
         IN IF m.ok THEN [ok |-> TRUE, s |-> s, start |-> pos, end |-> m.end, caps |-> m.caps]
            ELSE SearchFrom(re, s, pos + 1)

re_search(re, s) == SearchFrom(re, s, 1)

\* match.group(g): the captured text; a group that took no part is None.
has_group(m, g) == m.caps[g].e # 0
group(m, g) == Substr(m.s, m.caps[g].b, m.caps[g].e - 1)

(***************************************************************************)
(* IntentParser._initialize_patterns: the rule table.  The categories are  *)
(* the keys of the dict in insertion order, the rules of a category are    *)
(* its list in order.                                                      *)
(***************************************************************************)
\* (?:position\s+)?(?:\()?(\d+)(?:\s*,\s*|\s+)(\d+)(?:\))?   (the move rules)
PositionPair ==
    Opt(Lit("position") \o Plus("s")) \o Opt(Lit("("))
    \o Group(1, Plus("d"))
    \o Alt(Star("s") \o Lit(",") \o Star("s"), Plus("s"))
    \o Group(2, Plus("d")) \o Opt(Lit(")"))

\* (?:at\s+)?(?:position\s+)?(?:\()?(\d+)(?:\s*,\s*|\s+)(\d+)(?:\))?   (the click rules)
CoordinatePair == Opt(Lit("at") \o Plus("s")) \o PositionPair

\* verb\s+["\']([^"\']+)["\']
QuotedText(verb) ==
    Lit(verb) \o Plus("s") \o One("quote") \o Group(1, Plus("notquote")) \o One("quote")

\* verb\s+(?:the\s+)?(\w+)(?:\s+key)?
SingleKey(verb) ==
    Lit(verb) \o Plus("s") \o Opt(Lit("the") \o Plus("s")) \o Group(1, Plus("w"))
    \o Opt(Plus("s") \o Lit("key"))

\* Variant: (\w+)\s+\+\s+(\w+)
KeyPlusKeySpaced ==
    Group(1, Plus("w")) \o Plus("s") \o Lit("+") \o Plus("s") \o Group(2, Plus("w"))

\* (\w+)\s*\+\s*(\w+)
KeyPlusKey ==
    Group(1, Plus("w")) \o Star("s") \o Lit("+") \o Star("s") \o Group(2, Plus("w"))

Rule(re, pattern_type) == [pattern |-> re, pattern_type |-> pattern_type]

\* Variant: the screenshot category is tried before the key category.
ActionTypesScreenshotEarly == <<"click", "type", "screenshot", "key", "scroll", "move">>

ActionTypes == <<"click", "type", "key", "scroll", "move", "screenshot">>

right_click_rule ==
    Rule(Lit("right") \o Plus("s") \o Lit("click") \o Plus("s") \o CoordinatePair,
         "right_coordinates")
double_click_rule ==
    Rule(Lit("double") \o Plus("s") \o Lit("click") \o Plus("s") \o CoordinatePair,
         "double_coordinates")
generic_click_rule ==
    Rule(Opt(Lit("left") \o Plus("s")) \o Lit("click") \o Plus("s") \o CoordinatePair,
         "coordinates")

\* Variant: the generic click rule is declared first.
click_rules_generic_first == <<generic_click_rule, right_click_rule, double_click_rule>>

\* The 'click' list.
click_rules == <<right_click_rule, double_click_rule, generic_click_rule>>

\* scroll\s+(up|down)(?:\s+(\d+))?
direction_rule ==
    Rule(Lit("scroll") \o Plus("s") \o Group(1, Alt(Lit("up"), Lit("down")))
         \o Opt(Plus("s") \o Group(2, Plus("d"))),
         "direction")
\* scroll\s+(\d+)\s+times?\s+(up|down)
direction_count_rule ==
    Rule(Lit("scroll") \o Plus("s") \o Group(1, Plus("d")) \o Plus("s")
         \o Lit("time") \o Opt(Lit("s")) \o Plus("s")
         \o Group(2, Alt(Lit("up"), Lit("down"))),
         "direction_count")

\* Variant: the count-first rule is missing.
scroll_rules_direction_only == <<direction_rule>>

\* The 'scroll' list.
scroll_rules == <<direction_rule, direction_count_rule>>

patterns ==
    [click |-> click_rules,
     type |-> <<
        Rule(QuotedText("type"), "text"),
        Rule(QuotedText("write"), "text"),
        Rule(QuotedText("enter"), "text"),
        Rule(QuotedText("input"), "text") >>,
     key |-> <<
        Rule(SingleKey("press"), "single_key"),
        Rule(SingleKey("hit"), "single_key"),
        Rule(Lit("press") \o Plus("s") \o KeyPlusKey, "key_combo"),
        Rule(KeyPlusKey, "key_combo") >>,
     scroll |-> scroll_rules,
     move |-> <<
        Rule(Lit("move") \o Plus("s") \o Opt(Lit("mouse") \o Plus("s"))
             \o Opt(Lit("to") \o Plus("s")) \o PositionPair,
             "coordinates"),
        Rule(Lit("move") \o Plus("s") \o Opt(Lit("cursor") \o Plus("s"))
             \o Opt(Lit("to") \o Plus("s")) \o PositionPair,
             "coordinates") >>,
     screenshot |-> <<
        Rule(Lit("take") \o Plus("s") \o Opt(Lit("a") \o Plus("s")) \o Lit("screenshot"),
             "simple"),
        Rule(Lit("capture") \o Plus("s") \o Lit("screen"), "simple"),
        Rule(Lit("screenshot"), "simple") >>]

(***************************************************************************)
(* IntentParser._extract_parameters.                                       *)
(***************************************************************************)
\* key_mapping of the single_key branch
single_key_mapping ==
    [enter |-> "enter", return |-> "enter", space |-> "space", spacebar |-> "space",
     tab |-> "tab", escape |-> "esc", esc |-> "esc", delete |-> "delete",
     backspace |-> "backspace", ctrl |-> "ctrl", alt |-> "alt", shift |-> "shift",
     windows |-> "winleft", win |-> "winleft", cmd |-> "cmd",
     f1 |-> "f1", f2 |-> "f2", f3 |-> "f3", f4 |-> "f4", f5 |-> "f5", f6 |-> "f6",
     f7 |-> "f7", f8 |-> "f8", f9 |-> "f9", f10 |-> "f10", f11 |-> "f11", f12 |-> "f12",
     up |-> "up", down |-> "down", left |-> "left", right |-> "right",
     home |-> "home", end |-> "end", pageup |-> "pageup", pagedown |-> "pagedown"]

\* key_mapping of the key_combo branch
key_combo_mapping ==
    [ctrl |-> "ctrl", control |-> "ctrl", alt |-> "alt", shift |-> "shift",
     cmd |-> "cmd", command |-> "cmd", win |-> "winleft", windows |-> "winleft"]

\* Variant: the lookup never finds the key.
dict_get_default(d, key, default) == default

\* dict.get(key, default)
dict_get(d, key, default) == IF key \in DOMAIN d THEN d[key] ELSE default

_extract_parameters(match, pattern_type, action_type) ==
    CASE pattern_type \in {"coordinates", "right_coordinates", "double_coordinates"} ->
             IF int_raises(group(match, 1)) \/ int_raises(group(match, 2))
             THEN None                                   \* except (ValueError, IndexError)
             ELSE LET x == int(group(match, 1))
                      y == int(group(match, 2))
                  IN IF pattern_type = "coordinates"
                     THEN [x |-> x, y |-> y, button |-> "left"]
                     ELSE IF pattern_type = "right_coordinates"
                     THEN [x |-> x, y |-> y, button |-> "right"]
                     ELSE [x |-> x, y |-> y, button |-> "left", clicks |-> 2]
      [] pattern_type = "text" -> [text |-> group(match, 1)]
      [] pattern_type = "single_key" ->
             LET key == lower(group(match, 1))
             IN [key |-> dict_get(single_key_mapping, key, key)]
      [] pattern_type = "key_combo" ->
             LET key1 == lower(group(match, 1))
                 key2 == lower(group(match, 2))
             IN [keys |-> <<dict_get(key_combo_mapping, key1, key1),
                            dict_get(key_combo_mapping, key2, key2)>>]
      [] pattern_type = "direction" ->
             IF has_group(match, 2) /\ int_raises(group(match, 2)) THEN None
             ELSE [direction |-> group(match, 1),
                   clicks |-> IF has_group(match, 2) THEN int(group(match, 2)) ELSE 3]
      [] pattern_type = "direction_count" ->
             IF int_raises(group(match, 1)) THEN None
             ELSE [direction |-> group(match, 2), clicks |-> int(group(match, 1))]
      [] pattern_type = "simple" -> EmptyDict
      [] OTHER -> None

(***************************************************************************)
(* IntentParser.parse_command.                                             *)
(***************************************************************************)
\* Variant: the intent is built without the extracted parameters.
ParsedIntentWithoutParameters(action_type, parameters, raw_command) ==
    [action_type |-> action_type, parameters |-> EmptyDict, confidence |-> 80,
     raw_command |-> raw_command]

ParsedIntent(action_type, parameters, raw_command) ==
    [action_type |-> action_type, parameters |-> parameters,
     confidence |-> 80,                                  \* 0.8, in hundredths
     raw_command |-> raw_command]

\* Variant: the traversal gives up at the first rule whose extraction fails.
RECURSIVE ParseFromFailFast(_, _, _, _)
ParseFromFailFast(table, cmd, a, i) ==
    IF a > Len(ActionTypes) THEN None
    ELSE LET action_type == ActionTypes[a]
             rules == table[action_type]
         IN IF i > Len(rules) THEN ParseFromFailFast(table, cmd, a + 1, 1)
            ELSE LET match == re_search(rules[i].pattern, cmd)
                     parameters == _extract_parameters(match, rules[i].pattern_type, action_type)
                 IN IF match.ok
                    THEN (IF parameters # None
                          THEN ParsedIntent(action_type, parameters, cmd)
                          ELSE None)
                    ELSE ParseFromFailFast(table, cmd, a, i + 1)

\* The two nested loops over self.patterns (table), from (category index a,
\* rule index i) on.
RECURSIVE ParseFrom(_, _, _, _)
ParseFrom(table, cmd, a, i) ==
    IF a > Len(ActionTypes) THEN None
    ELSE LET action_type == ActionTypes[a]
             rules == table[action_type]
         IN IF i > Len(rules) THEN ParseFrom(table, cmd, a + 1, 1)
            ELSE LET match == re_search(rules[i].pattern, cmd)
                     parameters == _extract_parameters(match, rules[i].pattern_type, action_type)
                 IN IF match.ok /\ parameters # None
                    THEN ParsedIntent(action_type, parameters, cmd)
                    ELSE ParseFrom(table, cmd, a, i + 1)

\* IntentParser.__init__: the object's only field.
IntentParser == [patterns |-> patterns]

\* Variant: a successful parse drops the rules of the category it matched.
parse_command_on_consuming(self, c) ==
    LET cmd == strip(lower(c))
        value == IF cmd = "" THEN None ELSE ParseFrom(self.patterns, cmd, 1, 1)
    IN [self |-> IF value = None THEN self
                 ELSE [self EXCEPT !.patterns[value.action_type] = <<>>],
        value |-> value]

\* parse_command as a method of the object self: the object after the call
\* (the method assigns to no field) and the value returned.
parse_command_on(self, c) ==
    LET cmd == strip(lower(c))
    IN [self |-> self,
        value |-> IF cmd = "" THEN None ELSE ParseFrom(self.patterns, cmd, 1, 1)]

\* Variant: the command is case-folded but not trimmed.
parse_command_untrimmed(c) ==
    LET cmd == lower(c)
    IN IF strip(cmd) = "" THEN None ELSE ParseFrom(patterns, cmd, 1, 1)

\* parse_command on a freshly constructed parser.
parse_command(c) == parse_command_on(IntentParser, c).value

(***************************************************************************)
(* IntentParser.get_action_examples: the example catalogue.                *)
(***************************************************************************)
get_action_examples ==
    [click |-> <<"click at 100, 200", "left click at position (300, 400)",
                 "right click at 150, 250", "double click at 500, 600">>,
     type |-> <<"type \"Hello World\"", "write \"This is a test\"",
                "enter \"some text here\"", "input \"username123\"">>,
     key |-> <<"press enter", "hit the space key", "press ctrl+c", "alt+tab">>,
     scroll |-> <<"scroll up", "scroll down 5", "scroll 3 times up">>,
     move |-> <<"move mouse to 100, 200", "move cursor to position (300, 400)">>,
     screenshot |-> <<"take a screenshot", "capture screen", "screenshot">>]

(***************************************************************************)
(* The actuator: AutomationEngine (automation_engine.py, over pyautogui)   *)
(* and MockAutomationEngine (mock_automation.py).  Every operation takes   *)
(* the outcome `os` of its OS primitive: "ok", or "error" when pyautogui   *)
(* raises inside the engine's try block.  The mock engine calls no OS      *)
(* primitive, so "error" does not arise in it.                             *)
(***************************************************************************)
screen_width == 1920
screen_height == 1080

ActionResult(success, message, action_type) ==
    [success |-> success, message |-> message, action_type |-> action_type]

\* Optional[str]: None or a boxed string
Some(s) == [some |-> s]

\* str(e) of the exception the OS primitive or the actuator raises
ErrorText == "device not available"

Simulated(engine) == IF engine = "MockAutomationEngine" THEN "[SIMULATED] " ELSE ""
OsFails(engine, os) == engine = "AutomationEngine" /\ os = "error"

\* not (0 <= x <= self.screen_width and 0 <= y <= self.screen_height)
outside_screen_bounds(x, y) ==
    ~(0 <= x /\ x <= screen_width /\ 0 <= y /\ y <= screen_height)

\* What a position call does past its bounds test: nothing when the test
\* rejects; otherwise the real engine calls the pyautogui primitive (which
\* raises when os = "error") and the mock engine writes its log line.
position_primitive(engine, method, primitive, x, y, os) ==
    IF outside_screen_bounds(x, y) THEN <<>>
    ELSE IF engine = "AutomationEngine"
    THEN <<[caller |-> method, op |-> primitive, args |-> [x |-> x, y |-> y],
            raised |-> (os = "error"),
            value |-> IF os = "error" THEN [exception |-> ErrorText] ELSE [none |-> TRUE]]>>
    ELSE <<[caller |-> method, op |-> "logger.info", args |-> [x |-> x, y |-> y],
            raised |-> FALSE, value |-> [none |-> TRUE]]>>

click_at_position(engine, x, y, button, os) ==
    IF outside_screen_bounds(x, y)
    THEN ActionResult(FALSE,
             "Coordinates (" \o ToString(x) \o ", " \o ToString(y)
                 \o ") are outside screen bounds",
             "click")
    ELSE IF OsFails(engine, os)
    THEN ActionResult(FALSE, "Failed to click: " \o ErrorText, "click")
    ELSE ActionResult(TRUE,
             Simulated(engine) \o "Clicked at position (" \o ToString(x) \o ", "
                 \o ToString(y) \o ") with " \o button \o " button",
             "click")

type_text(engine, text, os) ==
    IF OsFails(engine, os)
    THEN ActionResult(FALSE, "Failed to type text: " \o ErrorText, "type")
    ELSE ActionResult(TRUE, Simulated(engine) \o "Typed text: '" \o text \o "'", "type")

press_key(engine, key, os) ==
    IF OsFails(engine, os)
    THEN ActionResult(FALSE, "Failed to press key: " \o ErrorText, "key_press")
    ELSE ActionResult(TRUE, Simulated(engine) \o "Pressed key: " \o key, "key_press")

\* '+'.join(keys)
RECURSIVE join_plus(_)
join_plus(keys) ==
    IF Len(keys) = 0 THEN ""
    ELSE IF Len(keys) = 1 THEN keys[1]
    ELSE keys[1] \o "+" \o join_plus(Tail(keys))

key_combination(engine, keys, os) ==
    IF OsFails(engine, os)
    THEN ActionResult(FALSE, "Failed to press key combination: " \o ErrorText,
                      "key_combination")
    ELSE ActionResult(TRUE,
             Simulated(engine) \o "Pressed key combination: " \o join_plus(keys),
             "key_combination")

\* Variant: the mock engine compares the direction without case folding.
scroll_mock_exact_case(engine, direction, clicks, os) ==
    IF (IF engine = "MockAutomationEngine" THEN direction ELSE lower(direction))
           \notin {"up", "down"}
    THEN ActionResult(FALSE, "Invalid scroll direction: " \o direction, "scroll")
    ELSE IF OsFails(engine, os)
    THEN ActionResult(FALSE, "Failed to scroll: " \o ErrorText, "scroll")
    ELSE ActionResult(TRUE,
             Simulated(engine) \o "Scrolled " \o direction \o " " \o ToString(clicks)
                 \o " clicks",
             "scroll")

scroll(engine, direction, clicks, os) ==
    IF lower(direction) \notin {"up", "down"}
    THEN ActionResult(FALSE, "Invalid scroll direction: " \o direction, "scroll")
    ELSE IF OsFails(engine, os)
    THEN ActionResult(FALSE, "Failed to scroll: " \o ErrorText, "scroll")
    ELSE ActionResult(TRUE,
             Simulated(engine) \o "Scrolled " \o direction \o " " \o ToString(clicks)
                 \o " clicks",
             "scroll")

move_mouse(engine, x, y, os) ==
    IF outside_screen_bounds(x, y)
    THEN ActionResult(FALSE,
             "Coordinates (" \o ToString(x) \o ", " \o ToString(y)
                 \o ") are outside screen bounds",
             "mouse_move")
    ELSE IF OsFails(engine, os)
    THEN ActionResult(FALSE, "Failed to move mouse: " \o ErrorText, "mouse_move")
    ELSE ActionResult(TRUE,
             Simulated(engine) \o "Moved mouse to (" \o ToString(x) \o ", "
                 \o ToString(y) \o ")",
             "mouse_move")

\* timestamp: int(time.time()) at the call
take_screenshot(engine, timestamp, os) ==
    IF OsFails(engine, os) THEN None
    ELSE Some((IF engine = "MockAutomationEngine" THEN "mock_screenshot_" ELSE "screenshot_")
              \o ToString(timestamp) \o ".png")

get_screen_size == <<screen_width, screen_height>>

(***************************************************************************)
(* The session classes: IntentApparatus (app.py) and SimpleWebInterface     *)
(* (demo.py), each driving the engine its module imports.                  *)
(* The emoji of the source's labels are written as ASCII tags:             *)
(* "[OK]" for the check mark, "[X]" for the cross, "*" for the bullet.     *)
(***************************************************************************)
Interfaces == {"IntentApparatus", "SimpleWebInterface"}
\* app.py imports the real engine; demo.py imports mock_automation's
\* AutomationEngine, which is the real engine when pyautogui can be imported
\* and the mock engine otherwise.
Engines(iface) ==
    IF iface = "IntentApparatus" THEN {"AutomationEngine"}
    ELSE {"AutomationEngine", "MockAutomationEngine"}

\* What the environment makes of one actuator call: the OS primitive works
\* ("ok"), the OS primitive fails inside the engine ("error"), or the call
\* raises an exception to its caller ("raise").
Outcomes == {"ok", "error", "raise"}

\* One entry of the call log: the method that made the call, the operation,
\* its arguments, and what came back (a value, or an exception).
Invoke(caller, op, args, out, value) ==
    [caller |-> caller, op |-> op, args |-> args, raised |-> (out = "raise"),
     value |-> IF out = "raise" THEN [exception |-> ErrorText] ELSE value]

\* time.sleep(0.1), in milliseconds
DoubleClickDelay == 100
Sleep ==
    [caller |-> "_execute_action", op |-> "sleep", args |-> [ms |-> DoubleClickDelay],
     raised |-> FALSE, value |-> None]

\* Variant: the handler reports the category "unknown", like the else branch.
ExecutionErrorUnknown(intent, call) ==
    ActionResult(FALSE, "Execution error: " \o call.value.exception, "unknown")

\* except Exception as e
ExecutionError(intent, call) ==
    ActionResult(FALSE, "Execution error: " \o call.value.exception, intent.action_type)

\* Variant: the else branch does not say which category it met.
UnknownActionUnnamed(intent) ==
    [calls |-> <<>>, result |-> ActionResult(FALSE, "Unknown action type", "unknown")]

\* The else branch: no call, a failure result.
UnknownAction(intent) ==
    [calls |-> <<>>,
     result |-> ActionResult(FALSE, "Unknown action type: " \o intent.action_type, "unknown")]

\* Variant: the branch issues its call twice.
ReturnCallTwice(intent, call) ==
    [calls |-> <<call, call>>,
     result |-> IF call.raised THEN ExecutionError(intent, call) ELSE call.value]

\* A branch that issues one call and returns what the call returns.
ReturnCall(intent, call) ==
    [calls |-> <<call>>,
     result |-> IF call.raised THEN ExecutionError(intent, call) ELSE call.value]

\* Variant: the second click is issued whatever became of the first.
DoubleClickRegardless(intent, first, second) ==
    [calls |-> <<first, Sleep, second>>,
     result |-> IF first.raised THEN ExecutionError(intent, first)
                ELSE IF second.raised THEN ExecutionError(intent, second)
                ELSE second.value]

\* Variant: the double click returns the result of its first call.
DoubleClickReturnsFirst(intent, first, second) ==
    IF first.raised
    THEN [calls |-> <<first>>, result |-> ExecutionError(intent, first)]
    ELSE [calls |-> <<first, Sleep, second>>,
          result |-> IF second.raised THEN ExecutionError(intent, second) ELSE first.value]

\* The clicks == 2 branch: click, sleep, click again, return the second result.
\* An exception of the first call leaves the branch before the sleep.
DoubleClick(intent, first, second) ==
    IF first.raised
    THEN [calls |-> <<first>>, result |-> ExecutionError(intent, first)]
    ELSE [calls |-> <<first, Sleep, second>>,
          result |-> IF second.raised THEN ExecutionError(intent, second) ELSE second.value]

(***************************************************************************)
(* _execute_action.  env[k] is the outcome of the k-th actuator call.      *)
(***************************************************************************)
_execute_action(iface, engine, intent, env) ==
    LET p == intent.parameters
    IN CASE intent.action_type = "click" ->
                LET x == dict_get(p, "x", None)
                    y == dict_get(p, "y", None)
                    button == dict_get(p, "button", "left")
                    clicks == dict_get(p, "clicks", 1)
                    args == [x |-> x, y |-> y, button |-> button]
                    first == Invoke("_execute_action", "click_at_position", args, env[1],
                                    click_at_position(engine, x, y, button, env[1]))
                    second == Invoke("_execute_action", "click_at_position", args, env[2],
                                     click_at_position(engine, x, y, button, env[2]))
                IN IF clicks = 2
                   THEN DoubleClick(intent, first, second)
                   ELSE ReturnCall(intent, first)
         [] intent.action_type = "type" ->
                LET text == dict_get(p, "text", None)
                IN ReturnCall(intent, Invoke("_execute_action", "type_text", [text |-> text], env[1],
                                             type_text(engine, text, env[1])))
         [] intent.action_type = "key" ->
                IF "keys" \in DOMAIN p
                THEN ReturnCall(intent, Invoke("_execute_action", "key_combination", [keys |-> p.keys], env[1],
                                               key_combination(engine, p.keys, env[1])))
                ELSE LET key == dict_get(p, "key", None)
                     IN ReturnCall(intent, Invoke("_execute_action", "press_key", [key |-> key], env[1],
                                                  press_key(engine, key, env[1])))
         [] intent.action_type = "scroll" ->
                LET direction == dict_get(p, "direction", None)
                    clicks == dict_get(p, "clicks", 3)
                IN ReturnCall(intent,
                       Invoke("_execute_action", "scroll", [direction |-> direction, clicks |-> clicks], env[1],
                              scroll(engine, direction, clicks, env[1])))
         [] intent.action_type = "move" ->
                LET x == dict_get(p, "x", None)
                    y == dict_get(p, "y", None)
                IN ReturnCall(intent, Invoke("_execute_action", "move_mouse", [x |-> x, y |-> y], env[1],
                                             move_mouse(engine, x, y, env[1])))
         [] intent.action_type = "screenshot" ->
                LET shot == Invoke("_execute_action", "take_screenshot", EmptyDict, env[1],
                                   take_screenshot(engine, 1, env[1]))
                IN [calls |-> <<shot>>,
                    result |->
                        IF shot.raised THEN ExecutionError(intent, shot)
                        ELSE IF shot.value # None /\ shot.value.some # ""
                        THEN ActionResult(TRUE,
                                 (IF iface = "SimpleWebInterface" THEN "[SIMULATED] " ELSE "")
                                     \o "Screenshot saved as " \o shot.value.some,
                                 "screenshot")
                        ELSE ActionResult(FALSE, "Failed to take screenshot", "screenshot")]
         [] OTHER -> UnknownAction(intent)

(***************************************************************************)
(* _get_example_commands: the first two examples of every category.        *)
(***************************************************************************)
\* Variant: command_list[:1]
FirstOne(command_list) == SubSeq(command_list, 1, IF Len(command_list) < 1 THEN Len(command_list) ELSE 1)

\* command_list[:2]
FirstTwo(command_list) == SubSeq(command_list, 1, IF Len(command_list) < 2 THEN Len(command_list) ELSE 2)

RECURSIVE ExampleLines(_)
ExampleLines(cmds) ==
    IF cmds = <<>> THEN "" ELSE "\n  * " \o Head(cmds) \o ExampleLines(Tail(cmds))

RECURSIVE FormatExamples(_, _, _)
FormatExamples(mark, examples, a) ==
    IF a > Len(ActionTypes) THEN ""
    ELSE (IF a > 1 THEN "\n" ELSE "")
         \o mark \o upper(ActionTypes[a]) \o ":" \o mark
         \o ExampleLines(FirstTwo(examples[ActionTypes[a]]))
         \o FormatExamples(mark, examples, a + 1)

_get_example_commands ==
    [iface \in Interfaces |->
        LET mark == IF iface = "IntentApparatus" THEN "**" ELSE ""
        IN mark \o "Example commands:" \o mark \o "\n\n"
           \o FormatExamples(mark, get_action_examples, 1)]

(***************************************************************************)
(* process_command.                                                        *)
(***************************************************************************)
SuccessLabel == "[OK] Success"
ErrorLabel == "[X] Error"
UnableLabel == "[X] Unable to parse command"

\* os.path.abspath
abspath(path) == "/app/" \o path

\* The tuple process_command returns: (status, message, screenshot_path) in
\* app.py, (status, message) in demo.py.
Returned(iface, status, message, screenshot_path) ==
    IF iface = "IntentApparatus"
    THEN [raised |-> FALSE, status |-> status, message |-> message,
          screenshot_path |-> screenshot_path]
    ELSE [raised |-> FALSE, status |-> status, message |-> message]

\* Number of actuator calls in a call log (sleeps are not actuator calls).
ActuatorCalls(log) == Len(SelectSeq(log, LAMBDA c : c.op # "sleep"))

\* The commands a session is given.
SessionCommands ==
    {"click at 100, 200", "double click at 5,5", "right click at 1920, 1081",
     "type \"Hello World\"", "press esc", "ctrl+c", "scroll up 3",
     "move mouse to 500, 600", "left click at position (300 400)", "take a screenshot",
     "do something vague", "", "  "}

\* self.intent_parser.parse_command(command); the parser keeps no state, so
\* its answers for the session's commands are computed once.
intent_parser == [c \in SessionCommands |-> parse_command(c)]

\* Variant: a new entry goes to the head of the log.
record_at_head(history, c, action_result) == <<(<<c, action_result>>)>> \o history

\* Variant: only successful results are recorded.
record_successes(history, c, action_result) ==
    IF action_result.success THEN Append(history, <<c, action_result>>) ELSE history

\* self.execution_history.append((command, result))
record(history, c, action_result) == Append(history, <<c, action_result>>)

process_command(iface, engine, c, env, history) ==
    IF strip(c) = ""
    THEN [parsed_intent |-> None, calls |-> <<>>, result |-> None, history |-> history,
          returned |-> Returned(iface, ErrorLabel, "Please enter a command.", Some(""))]
    ELSE LET parsed == intent_parser[c]
         IN IF parsed = None
            THEN [parsed_intent |-> None, calls |-> <<>>, result |-> None,
                  history |-> history,
                  returned |-> Returned(iface, UnableLabel,
                                  "Could not understand the command: '" \o c \o "'\n\n"
                                      \o _get_example_commands[iface],
                                  Some(""))]
            ELSE LET d == _execute_action(iface, engine, parsed, env)
                     status == IF d.result.success THEN SuccessLabel ELSE ErrorLabel
                     k == ActuatorCalls(d.calls) + 1
                     shot == Invoke("process_command", "take_screenshot", EmptyDict, env[k],
                                    take_screenshot(engine, k, env[k]))
                 IN IF /\ iface = "IntentApparatus"
                       /\ d.result.success
                       /\ parsed.action_type \in {"click", "move", "screenshot"}
                    THEN [parsed_intent |-> parsed, calls |-> Append(d.calls, shot),
                          result |-> d.result,
                          history |-> record(history, c, d.result),
                          returned |->
                              IF shot.raised
                              THEN [raised |-> TRUE, exception |-> shot.value.exception]
                              ELSE Returned(iface, status, d.result.message,
                                       IF shot.value # None /\ shot.value.some # ""
                                       THEN Some(abspath(shot.value.some))
                                       ELSE shot.value)]
                    ELSE [parsed_intent |-> parsed, calls |-> d.calls, result |-> d.result,
                          history |-> record(history, c, d.result),
                          returned |-> Returned(iface, status, d.result.message, Some(""))]

\* clear_history
clear_history(history) == <<>>

(***************************************************************************)
(* web_server.py: IntentApparatusHandler.handle_command builds the JSON    *)
(* response from what process_command returned.  The check mark the label  *)
(* is tested for is the tag "[OK]" here.                                   *)
(***************************************************************************)
CheckMark == "[OK]"

\* str.startswith
startswith(s, prefix) == Len(s) >= Len(prefix) /\ SubSeq(s, 1, Len(prefix)) = prefix

\* Variant: success is every label but the plain error label.
handle_command_unless_error(ret) ==
    IF ret.raised
    THEN [code |-> 500, success |-> FALSE, status |-> ErrorLabel,
          message |-> "Server error: " \o ret.exception]
    ELSE [code |-> 200, success |-> (ret.status # ErrorLabel), status |-> ret.status,
          message |-> ret.message]

\* The response for what process_command returned (ret), or for the
\* exception it let through.
handle_command(ret) ==
    IF ret.raised
    THEN [code |-> 500, success |-> FALSE, status |-> ErrorLabel,
          message |-> "Server error: " \o ret.exception]
    ELSE [code |-> 200, success |-> startswith(ret.status, CheckMark), status |-> ret.status,
          message |-> ret.message]

(***************************************************************************)
(* get_execution_history: the last ten entries, numbered from 1, one line  *)
(* each.  app.py puts the command between backquotes (written "~" here,    *)
(* as for the emoji above), demo.py between single quotes.                 *)
(***************************************************************************)
HistoryWindow == 10

\* Variant: sequence[:n]
first_entries(sequence, n) ==
    SubSeq(sequence, 1, IF Len(sequence) < n THEN Len(sequence) ELSE n)

\* sequence[-n:]
last_entries(sequence, n) ==
    SubSeq(sequence, IF Len(sequence) < n THEN 1 ELSE Len(sequence) - n + 1, Len(sequence))

\* f"{i}. {status} ~{command}~ - {result.message}"
history_line(iface, i, entry) ==
    LET status == IF entry[2].success THEN "[OK]" ELSE "[X]"
        quote == IF iface = "IntentApparatus" THEN "~" ELSE "'"
    IN ToString(i) \o ". " \o status \o " " \o quote \o entry[1] \o quote
           \o " - " \o entry[2].message

\* "\n".join(lines)
RECURSIVE join_lines(_)
join_lines(lines) ==
    IF lines = <<>> THEN ""
    ELSE IF Len(lines) = 1 THEN lines[1]
    ELSE lines[1] \o "\n" \o join_lines(Tail(lines))

NoHistoryText == "No commands executed yet."

get_execution_history(iface, history) ==
    IF history = <<>> THEN NoHistoryText
    ELSE LET shown == last_entries(history, HistoryWindow)
         IN join_lines([i \in 1..Len(shown) |-> history_line(iface, i, shown[i])])

(***************************************************************************)
(* The commands the specifications draw from.                              *)
(***************************************************************************)
RECURSIVE Repeat(_, _)
Repeat(ch, n) == IF n = 0 THEN "" ELSE ch \o Repeat(ch, n - 1)

\* A number with one digit more than int() converts.
OverlongNumber == Repeat("9", IntMaxStrDigits + 1)

ClickVerbs == {"right click", "double click", "click", "left click"}
ClickTargets ==
    {"at 10,20", "5 5", "at position (300, 400)", "1920 1081",
     "at " \o OverlongNumber \o ", 3"}
ClickUtterances == {v \o " " \o xy : v \in ClickVerbs, xy \in ClickTargets}

TypeVerbs == {"type", "write", "enter", "input"}
Literals == {"Hello World", "abc", "A1"}
TypeCommand(verb, q, literal) == verb \o " " \o q \o literal \o q
TypeUtterances == {TypeCommand(v, q, l) : v \in TypeVerbs, q \in Quotes, l \in Literals}

KeyNames == {"esc", "escape", "enter", "return", "space", "q"}
SingleKeyUtterances ==
    {v \o " " \o the \o k \o suffix :
        v \in {"press", "hit"}, the \in {"", "the "}, k \in KeyNames, suffix \in {"", " key"}}

KeyTokens == {"ctrl", "control", "c", "alt", "tab", "win", "esc"}
PlainCombo(a, b) == a \o "+" \o b
PressCombo(a, b) == "press " \o a \o "+" \o b
ComboUtterances ==
    {PlainCombo(a, b) : a \in KeyTokens, b \in KeyTokens}
    \cup {PressCombo(a, b) : a \in KeyTokens, b \in KeyTokens}

Directions == {"up", "down"}
Counts == {"1", "3", "12", OverlongNumber}
ScrollUtterances ==
    {"scroll " \o d : d \in Directions}
    \cup {"scroll " \o d \o " " \o n : d \in Directions, n \in Counts}
    \cup {"scroll " \o n \o " times " \o d : d \in Directions, n \in Counts}
    \cup {"scroll " \o n \o " time " \o d : d \in Directions, n \in Counts}

MoveUtterances ==
    {"move " \o m \o xy :
        m \in {"", "mouse to ", "cursor to ", "to "},
        xy \in {"10,20", "position (300, 400)", OverlongNumber \o " 3"}}

ScreenshotUtterances == {"take a screenshot", "take screenshot", "capture screen", "screenshot"}

OtherUtterances == {"do something vague", "compress files", "click here", "", "  "}

Utterances ==
    ClickUtterances \cup TypeUtterances \cup SingleKeyUtterances \cup ComboUtterances
    \cup ScrollUtterances \cup MoveUtterances \cup ScreenshotUtterances \cup OtherUtterances

\* Two utterances in one command.
CoreUtterances ==
    {"right click at 10,20", "double click 5 5", "click 7 8",
     "click " \o OverlongNumber \o " 1", "right click " \o OverlongNumber \o ", 3",
     "type \"Hi\"", "press enter", "ctrl+c", "scroll up", "scroll 2 times down",
     "move to 3 4", "screenshot"}
Sequel(u, v) == u \o " then " \o v

\* The first letter in upper case.
Capitalized(u) == IF u = "" THEN "" ELSE UpperChar(Char(u, 1)) \o Substr(u, 2, Len(u))

\* Every string of the example catalogue.
ExampleCommands ==
    UNION {{get_action_examples[a][i] : i \in DOMAIN get_action_examples[a]} :
           a \in DOMAIN get_action_examples}

Commands ==
    Utterances
    \cup ExampleCommands
    \cup {upper(u) : u \in Utterances}
    \cup {" \t" \o Capitalized(u) \o "  " : u \in Utterances}
    \cup {Sequel(u, v) : u \in CoreUtterances, v \in CoreUtterances}

(***************************************************************************)
(* Specification of the interpreter alone: a command is drawn, then        *)
(* parse_command is applied to it.                                         *)
(***************************************************************************)
\* Nothing has been called yet.
NotYet == [pending |-> TRUE]

InterpretInit ==
    /\ interface = "IntentApparatus"
    /\ automation_engine = "AutomationEngine"
    /\ command \in Commands
    /\ parsed_intent = NotYet
    /\ calls = <<>>
    /\ result = None
    /\ returned = NotYet
    /\ execution_history = <<>>
    /\ history_output = NotYet
    /\ in_flight = <<>>
    /\ parser = IntentParser
    /\ listed_examples = NotYet

Interpret ==
    /\ parsed_intent = NotYet
    /\ parsed_intent' = parse_command(command)
    /\ UNCHANGED <<interface, automation_engine, command, calls, result, returned,
                   execution_history, history_output, in_flight, parser, listed_examples>>

InterpretNext == Interpret

InterpretSpec == InterpretInit /\ [][InterpretNext]_vars

(***************************************************************************)
(* Specification of one parser object in use: parse_command and            *)
(* get_action_examples called on it in any order, any number of times.     *)
(***************************************************************************)
\* The commands given to the one parser object: the catalogue's examples,
\* commands of the coordinate, scroll and screenshot rules, and unmatched ones.
ParserCommands ==
    ExampleCommands \cup ClickUtterances \cup ScrollUtterances \cup MoveUtterances
    \cup ScreenshotUtterances \cup OtherUtterances

ParserInit ==
    /\ interface = "IntentApparatus"
    /\ automation_engine = "AutomationEngine"
    /\ command = ""
    /\ parsed_intent = NotYet
    /\ calls = <<>>
    /\ result = None
    /\ returned = NotYet
    /\ execution_history = <<>>
    /\ history_output = NotYet
    /\ in_flight = <<>>
    /\ parser = IntentParser
    /\ listed_examples = NotYet

ParseCommand(c) ==
    \E r \in {parse_command_on(parser, c)} :
        /\ command' = c
        /\ parser' = r.self
        /\ parsed_intent' = r.value
        /\ UNCHANGED <<interface, automation_engine, calls, result, returned,
                       execution_history, history_output, in_flight, listed_examples>>

\* get_action_examples reads no field and returns a newly built catalogue.
GetActionExamples ==
    /\ listed_examples' = Some(get_action_examples)
    /\ UNCHANGED <<interface, automation_engine, command, parsed_intent, calls, result,
                   returned, execution_history, history_output, in_flight, parser>>

ParserNext ==
    \/ \E c \in ParserCommands : ParseCommand(c)
    \/ GetActionExamples

ParserSpec == ParserInit /\ [][ParserNext]_vars

(***************************************************************************)
(* Specification of a session: process_command and clear_history in any    *)
(* order, on either session class, with every behaviour of the actuator.   *)
(***************************************************************************)
Init ==
    /\ interface \in Interfaces
    /\ automation_engine \in Engines(interface)
    /\ command = ""
    /\ parsed_intent = NotYet
    /\ calls = <<>>
    /\ result = None
    /\ returned = NotYet
    /\ execution_history = <<>>
    /\ history_output = NotYet
    /\ in_flight = <<>>
    /\ parser = IntentParser
    /\ listed_examples = NotYet

\* process_command, while the log holds fewer than limit entries.
ProcessCommandWithin(c, env, limit) ==
    /\ Len(execution_history) < limit
    /\ \E r \in {process_command(interface, automation_engine, c, env, execution_history)} :
          /\ command' = c
          /\ parsed_intent' = r.parsed_intent
          /\ calls' = r.calls
          /\ result' = r.result
          /\ returned' = r.returned
          /\ execution_history' = r.history
    /\ history_output' = NotYet
    /\ UNCHANGED <<interface, automation_engine, in_flight, parser, listed_examples>>

ProcessCommand(c, env) == ProcessCommandWithin(c, env, MaxHistory)

GetExecutionHistory ==
    /\ history_output' = Some(get_execution_history(interface, execution_history))
    /\ UNCHANGED <<interface, automation_engine, command, parsed_intent, calls, result,
                   returned, execution_history, in_flight, parser, listed_examples>>

\* clear_history is a method of IntentApparatus only.
ClearHistory ==
    /\ interface = "IntentApparatus"
    /\ execution_history # <<>>
    /\ execution_history' = clear_history(execution_history)
    /\ history_output' = NotYet
    /\ UNCHANGED <<interface, automation_engine, command, parsed_intent, calls, result, returned,
                   in_flight, parser, listed_examples>>

Next ==
    \/ \E c \in SessionCommands, env \in [1..3 -> Outcomes] : ProcessCommand(c, env)
    \/ GetExecutionHistory
    \/ ClearHistory

Spec == Init /\ [][Next]_vars

(***************************************************************************)
(* Specification of a long session: commands that are recorded, with an    *)
(* actuator that works, until the log is longer than the display window.   *)
(***************************************************************************)
HistoryCommands == {"press esc", "right click at 1920, 1081"}
ActuatorWorks == [k \in 1..3 |-> "ok"]

HistoryNext ==
    \/ \E c \in HistoryCommands : ProcessCommandWithin(c, ActuatorWorks, HistoryLimit)
    \/ GetExecutionHistory
    \/ ClearHistory

HistorySpec == Init /\ [][HistoryNext]_vars

(***************************************************************************)
(* Specification of the dispatcher alone: _execute_action is handed an     *)
(* intent, of a category the interpreter produces or of any other.         *)
(***************************************************************************)
DispatchIntents ==
    {ParsedIntent("click", [x |-> 5, y |-> 5, button |-> "left"], "click 5 5"),
     ParsedIntent("click", [x |-> 5, y |-> 5, button |-> "left", clicks |-> 2], "double click 5 5"),
     ParsedIntent("click", [x |-> 1920, y |-> 1081, button |-> "right"], "right click 1920 1081"),
     ParsedIntent("type", [text |-> "hi"], "type 'hi'"),
     ParsedIntent("key", [key |-> "esc"], "press esc"),
     ParsedIntent("key", [keys |-> <<"ctrl", "c">>], "ctrl+c"),
     ParsedIntent("scroll", [direction |-> "up", clicks |-> 3], "scroll up"),
     ParsedIntent("scroll", [direction |-> "sideways", clicks |-> 2], ""),
     ParsedIntent("move", [x |-> 3, y |-> 4, button |-> "left"], "move to 3 4"),
     ParsedIntent("screenshot", EmptyDict, "screenshot")}
    \cup {ParsedIntent(a, p, "") :
              a \in {"drag", "unknown", "Click", "clicks", ""},
              p \in {EmptyDict, [x |-> 5, y |-> 5, button |-> "left"]}}

DispatchInit ==
    /\ interface \in Interfaces
    /\ automation_engine \in Engines(interface)
    /\ command = ""
    /\ parsed_intent \in DispatchIntents
    /\ calls = <<>>
    /\ result = None
    /\ returned = NotYet
    /\ execution_history = <<>>
    /\ history_output = NotYet
    /\ in_flight = <<>>
    /\ parser = IntentParser
    /\ listed_examples = NotYet

Dispatch(env) ==
    /\ result = None
    /\ \E d \in {_execute_action(interface, automation_engine, parsed_intent, env)} :
          /\ calls' = d.calls
          /\ result' = d.result
    /\ UNCHANGED <<interface, automation_engine, command, parsed_intent, returned,
                   execution_history, history_output, in_flight, parser, listed_examples>>

DispatchNext == \E env \in [1..3 -> Outcomes] : Dispatch(env)

DispatchSpec == DispatchInit /\ [][DispatchNext]_vars

(***************************************************************************)
(* Specification of the actuator alone: the operations of either engine,   *)
(* called in any order with arguments inside, on and beyond the edges of   *)
(* the screen.  calls holds the last call and the primitive it reached,    *)
(* result what it returned.                                                *)
(***************************************************************************)
Xs == {-1, 0, screen_width - 1, screen_width, screen_width + 1}
Ys == {-1, 0, screen_height - 1, screen_height, screen_height + 1}
Buttons == {"left", "right"}
ScrollDirections == {"up", "down", "Up", "sideways"}
ScrollCounts == {1, 3}
Keys == {"esc", "enter", "nosuchkey"}
KeyLists == {<<"ctrl", "c">>, <<"alt", "tab">>}
Texts == {"hello world", "A1"}
OsOutcomes == {"ok", "error"}

ActuatorInit ==
    /\ interface = "SimpleWebInterface"
    /\ automation_engine \in Engines(interface)
    /\ command = ""
    /\ parsed_intent = NotYet
    /\ calls = <<>>
    /\ result = None
    /\ returned = NotYet
    /\ execution_history = <<>>
    /\ history_output = NotYet
    /\ in_flight = <<>>
    /\ parser = IntentParser
    /\ listed_examples = NotYet

\* One call of an actuator operation: the call, then what it reached.
ActuatorCall(op, args, os, value, reached) ==
    /\ calls' = <<Invoke("client", op, args, os, value)>> \o reached
    /\ result' = value
    /\ UNCHANGED <<interface, automation_engine, command, parsed_intent, returned,
                   execution_history, history_output, in_flight, parser, listed_examples>>

ClickAtPosition(x, y, button, os) ==
    ActuatorCall("click_at_position", [x |-> x, y |-> y, button |-> button], os,
                 click_at_position(automation_engine, x, y, button, os),
                 position_primitive(automation_engine, "click_at_position",
                                    "pyautogui.click", x, y, os))

MoveMouse(x, y, os) ==
    ActuatorCall("move_mouse", [x |-> x, y |-> y], os,
                 move_mouse(automation_engine, x, y, os),
                 position_primitive(automation_engine, "move_mouse",
                                    "pyautogui.moveTo", x, y, os))

TypeText(text, os) ==
    ActuatorCall("type_text", [text |-> text], os,
                 type_text(automation_engine, text, os), <<>>)

PressKey(key, os) ==
    ActuatorCall("press_key", [key |-> key], os,
                 press_key(automation_engine, key, os), <<>>)

KeyCombination(keys, os) ==
    ActuatorCall("key_combination", [keys |-> keys], os,
                 key_combination(automation_engine, keys, os), <<>>)

Scroll(direction, clicks, os) ==
    ActuatorCall("scroll", [direction |-> direction, clicks |-> clicks], os,
                 scroll(automation_engine, direction, clicks, os), <<>>)

ActuatorNext ==
    \E os \in OsOutcomes :
        \/ \E x \in Xs, y \in Ys, button \in Buttons : ClickAtPosition(x, y, button, os)
        \/ \E x \in Xs, y \in Ys : MoveMouse(x, y, os)
        \/ \E text \in Texts : TypeText(text, os)
        \/ \E key \in Keys : PressKey(key, os)
        \/ \E keys \in KeyLists : KeyCombination(keys, os)
        \/ \E direction \in ScrollDirections, clicks \in ScrollCounts :
               Scroll(direction, clicks, os)

ActuatorSpec == ActuatorInit /\ [][ActuatorNext]_vars

(***************************************************************************)
(* Specification of the built-in HTTP server (web_server.py).  TCPServer   *)
(* serves one connection at a time and constructs one handler for each;    *)
(* the handler class leaves protocol_version at HTTP/1.0, so a connection  *)
(* carries one request.  The handler's __init__ constructs the session     *)
(* that serves the request.  in_flight holds the requests in the order     *)
(* they were accepted, each with its position and its response, the last   *)
(* one being served; execution_history is the log of the session of the    *)
(* current handler.                                                        *)
(***************************************************************************)
MaxRequests == 2

ServerCommands ==
    {"press esc", "right click at 1920, 1081", "take a screenshot", "do something vague", ""}

\* Variant: the handler is given the session that served the last request.
session_history_kept(served) == served

\* self.interface = SimpleWebInterface(): the log of the session a handler
\* constructs, whatever the log of the session that served the last request.
session_history(served) == <<>>

ServerInit ==
    /\ interface = "SimpleWebInterface"
    /\ automation_engine \in Engines(interface)
    /\ command = ""
    /\ parsed_intent = NotYet
    /\ calls = <<>>
    /\ result = None
    /\ returned = NotYet
    /\ execution_history = <<>>
    /\ history_output = NotYet
    /\ in_flight = <<>>
    /\ parser = IntentParser
    /\ listed_examples = NotYet

\* A POST /execute connection is accepted and its handler constructed.
Accept(c) ==
    /\ Len(in_flight) < MaxRequests
    /\ IF in_flight = <<>> THEN TRUE ELSE in_flight[Len(in_flight)].at = "responded"
    /\ in_flight' = Append(in_flight, [command |-> c, at |-> "constructed", response |-> None])
    /\ execution_history' = session_history(execution_history)
    /\ command' = ""
    /\ parsed_intent' = NotYet
    /\ calls' = <<>>
    /\ result' = None
    /\ returned' = NotYet
    /\ UNCHANGED <<interface, automation_engine, history_output, parser, listed_examples>>

\* handle_command: process_command on the handler's session, then the response.
HandleCommand(env) ==
    /\ in_flight # <<>>
    /\ in_flight[Len(in_flight)].at = "constructed"
    /\ \E r \in {process_command(interface, automation_engine,
                                  in_flight[Len(in_flight)].command, env, execution_history)} :
          /\ command' = in_flight[Len(in_flight)].command
          /\ parsed_intent' = r.parsed_intent
          /\ calls' = r.calls
          /\ result' = r.result
          /\ returned' = r.returned
          /\ execution_history' = r.history
          /\ in_flight' = [in_flight EXCEPT ![Len(in_flight)].at = "responded",
                                            ![Len(in_flight)].response =
                                                handle_command(r.returned)]
    /\ UNCHANGED <<interface, automation_engine, history_output, parser, listed_examples>>

ServerNext ==
    \/ \E c \in ServerCommands : Accept(c)
    \/ \E env \in [1..3 -> Outcomes] : HandleCommand(env)

ServerSpec == ServerInit /\ [][ServerNext]_vars

(***************************************************************************)
(* Specification of overlapping calls.  create_gradio_interface registers  *)
(* execute_command on the button and on the text box over one shared       *)
(* IntentApparatus, and process_command takes no lock, so a call may       *)
(* arrive while another is between two of its statements.  A call is       *)
(* followed through its statements: parse (line 27), _execute_action       *)
(* (line 38), the append to the log (line 41).                             *)
(***************************************************************************)
OverlapCommands == {"double click at 5,5", "press esc", "ctrl+c", "do something vague"}

\* process_command is entered: lines 23-35.
Arrive(c) ==
    /\ Len(in_flight) < MaxCallers
    /\ in_flight' = Append(in_flight,
                        [command |-> c, parsed_intent |-> intent_parser[c], result |-> None,
                         at |-> IF intent_parser[c] = None THEN "returned" ELSE "parsed"])
    /\ UNCHANGED <<interface, automation_engine, command, parsed_intent, calls, result,
                   returned, execution_history, history_output, parser, listed_examples>>

\* result = self._execute_action(parsed_intent)
Execute(i, env) ==
    /\ in_flight[i].at = "parsed"
    /\ \E d \in {_execute_action(interface, automation_engine, in_flight[i].parsed_intent, env)} :
          in_flight' = [in_flight EXCEPT ![i].result = d.result, ![i].at = "executed"]
    /\ UNCHANGED <<interface, automation_engine, command, parsed_intent, calls, result,
                   returned, execution_history, history_output, parser, listed_examples>>

\* self.execution_history.append((command, result)), and the return
Record(i) ==
    /\ in_flight[i].at = "executed"
    /\ execution_history' = record(execution_history, in_flight[i].command, in_flight[i].result)
    /\ in_flight' = [in_flight EXCEPT ![i].at = "returned"]
    /\ UNCHANGED <<interface, automation_engine, command, parsed_intent, calls, result,
                   returned, history_output, parser, listed_examples>>

OverlapInit == Init /\ interface = "IntentApparatus"

OverlapNext ==
    \/ \E c \in OverlapCommands : Arrive(c)
    \/ \E i \in DOMAIN in_flight : Execute(i, ActuatorWorks)
    \/ \E i \in DOMAIN in_flight : Record(i)

OverlapSpec == OverlapInit /\ [][OverlapNext]_vars

(***************************************************************************)
(* Properties.                                                             *)
(***************************************************************************)
\* The order in which the interpreter is to try the categories.
CategoryOrder == <<"click", "type", "key", "scroll", "move", "screenshot">>

\* Every rule of the table with its category, in the order of the traversal.
RECURSIVE TraversalFrom(_)
TraversalFrom(a) ==
    IF a > Len(CategoryOrder) THEN <<>>
    ELSE [i \in 1..Len(patterns[CategoryOrder[a]]) |->
             [action_type |-> CategoryOrder[a],
              pattern |-> patterns[CategoryOrder[a]][i].pattern,
              pattern_type |-> patterns[CategoryOrder[a]][i].pattern_type]]
         \o TraversalFrom(a + 1)
Traversal == TraversalFrom(1)

Min(S) == CHOOSE m \in S : \A k \in S : m <= k

\* The command as the rules see it.
Preprocessed == strip(lower(command))

\* Rule i's pattern occurs in the command; what extraction makes of that match.
RuleMatch(i) == re_search(Traversal[i].pattern, Preprocessed)
RuleMatches(i) == RuleMatch(i).ok
RuleParameters(i) ==
    _extract_parameters(RuleMatch(i), Traversal[i].pattern_type, Traversal[i].action_type)
RuleIntent(i) == ParsedIntent(Traversal[i].action_type, RuleParameters(i), Preprocessed)

MatchingRules == {i \in 1..Len(Traversal) : RuleMatches(i)}
ExtractingRules == {i \in MatchingRules : RuleParameters(i) # None}

Interpreted == parsed_intent # NotYet

\* The first rule whose pattern occurs in the command fails extraction.
FirstMatchFailsExtraction ==
    /\ Interpreted
    /\ MatchingRules # {}
    /\ RuleParameters(Min(MatchingRules)) = None

CombinationName(token) == dict_get(key_combo_mapping, token, token)

\* C2 as stated: for key tokens a and b, the commands "a+b" and "press a+b"
\* are both interpreted as a key intent whose parameters are the ordered key
\* sequence [norm(a), norm(b)].
C2_BothCombinationFormsGiveKeySequence ==
    Interpreted =>
        \A a \in KeyTokens, b \in KeyTokens :
            command \in {PlainCombo(a, b), PressCombo(a, b)} =>
                /\ parsed_intent # None
                /\ parsed_intent.action_type = "key"
                /\ parsed_intent.parameters = [keys |-> <<CombinationName(a), CombinationName(b)>>]

\* C4: interpret gives the same outcome (category, parameters, confidence and
\* rawCommand, or NoMatch) for a command and for that command with the
\* surrounding whitespace removed and all letters lowercased.
C4_SameAsTrimmedLowercased ==
    Interpreted => parsed_intent = parse_command(lower(strip(command)))

\* C4 witness: a recognised command that was entered with padding and capitals.
C4_Witness ==
    /\ Interpreted
    /\ parsed_intent # None
    /\ command # ""
    /\ Char(command, 1) \in Whitespace
    /\ Char(command, Len(command)) \in Whitespace
    /\ lower(command) # command

\* Positions of the click rules in the traversal.
RightClickRule ==
    CHOOSE i \in DOMAIN Traversal : Traversal[i].pattern_type = "right_coordinates"
DoubleClickRule ==
    CHOOSE i \in DOMAIN Traversal : Traversal[i].pattern_type = "double_coordinates"

ResolvedAsRightClick ==
    /\ parsed_intent # None
    /\ parsed_intent.action_type = "click"
    /\ parsed_intent.parameters.button = "right"
    /\ "clicks" \notin DOMAIN parsed_intent.parameters

ResolvedAsDoubleClick ==
    /\ parsed_intent # None
    /\ parsed_intent.action_type = "click"
    /\ parsed_intent.parameters.button = "left"
    /\ "clicks" \in DOMAIN parsed_intent.parameters
    /\ parsed_intent.parameters.clicks = 2

Processed == returned # NotYet

\* The command was interpreted to an intent (and dispatched).
Dispatched == Processed /\ parsed_intent # None

\* The calls _execute_action made, without the one process_command adds.
DispatchCalls == SelectSeq(calls, LAMBDA c : c.caller = "_execute_action")

\* sub occurs in s
Contains(s, sub) ==
    \E i \in 1..(Len(s) - Len(sub) + 1) : SubSeq(s, i, i + Len(sub) - 1) = sub

\* C3 as stated: for a type/write/enter/input command with a quoted literal,
\* the text parameter of the intent and the argument of the single typeText
\* call of the dispatcher equal the literal as the user entered it, letter
\* case included.
C3_TypedTextIsVerbatim ==
    Processed =>
        \A v \in TypeVerbs, q \in Quotes, literal \in Literals :
            command = TypeCommand(v, q, literal) =>
                /\ parsed_intent # None
                /\ parsed_intent.action_type = "type"
                /\ parsed_intent.parameters = [text |-> literal]
                /\ Len(DispatchCalls) = 1
                /\ DispatchCalls[1].op = "type_text"
                /\ DispatchCalls[1].args = [text |-> literal]

IsDoubleClick ==
    /\ Dispatched
    /\ parsed_intent.action_type = "click"
    /\ dict_get(parsed_intent.parameters, "clicks", 1) = 2

\* C7: for a double-click intent whose click calls return, the dispatcher
\* issues exactly two click calls with the x, y and button of the intent, the
\* second after the first and after the fixed delay, and it returns the result
\* of the second call, whatever the first call returned.
C7_DoubleClickReturnsSecondResult ==
    IsDoubleClick /\ ~DispatchCalls[1].raised =>
        LET d == DispatchCalls
            p == parsed_intent.parameters
        IN /\ Len(SelectSeq(d, LAMBDA c : c.op = "click_at_position")) = 2
           /\ Len(d) = 3
           /\ d[1].op = "click_at_position"
           /\ d[2].op = "sleep" /\ d[2].args.ms = DoubleClickDelay
           /\ d[3].op = "click_at_position"
           /\ d[1].args = [x |-> p.x, y |-> p.y, button |-> p.button]
           /\ d[3].args = d[1].args
           /\ ~d[3].raised => result = d[3].value

\* C7 witness: the first click returned a failure, the second a success, and
\* the dispatcher returned the success.
C7_Witness ==
    /\ IsDoubleClick
    /\ Len(DispatchCalls) = 3
    /\ ~DispatchCalls[1].raised /\ ~DispatchCalls[3].raised
    /\ ~DispatchCalls[1].value.success
    /\ DispatchCalls[3].value.success
    /\ result.success

\* An actuator operation raised during dispatch.
DispatchRaised == \E k \in 1..Len(DispatchCalls) : DispatchCalls[k].raised

\* C8: when an actuator operation raises during dispatch, dispatch returns an
\* ActionResult with success=false, a message that contains the text of the
\* exception, and the category of the dispatched intent.
C8_RaisedCallBecomesFailureResult ==
    Dispatched /\ DispatchRaised =>
        /\ result # None
        /\ result.success = FALSE
        /\ Contains(result.message, ErrorText)
        /\ result.action_type = parsed_intent.action_type

\* C8 witness: the second click of a double click raised.
C8_Witness ==
    /\ IsDoubleClick
    /\ Len(DispatchCalls) = 3
    /\ DispatchCalls[3].raised
    /\ result.action_type = "click"

\* C9 as stated: process_command never raises, whatever the command and
\* whatever each actuator operation does (return a value or raise).
C9_ProcessCommandNeverRaises ==
    Processed => ~returned.raised

\* The examples every category lists at the given ranks.
ExamplesRanked(ranks) ==
    UNION {{get_action_examples[a][i] : i \in DOMAIN get_action_examples[a] \cap ranks} :
           a \in DOMAIN get_action_examples}

\* The command is not blank and no rule matched it.
Unrecognized == Processed /\ strip(command) # "" /\ parsed_intent = None

HistoryShown == history_output # NotYet

\* The entries of rank from..to of the log, rendered as the lines 1, 2, ...
LinesOf(from, to) ==
    [i \in 1..(to - from + 1) |->
        history_line(interface, i, execution_history[from + i - 1])]

\* C11: after any sequence of n recorded commands, the history display
\* returns exactly the last min(n, 10) entries in arrival order, oldest
\* first; with an empty log (at the start, or after clear, whatever was
\* recorded before) it returns the empty history.
C11_HistoryShowsLastTen ==
    HistoryShown =>
        LET n == Len(execution_history)
            shown == IF n < 10 THEN n ELSE 10
        IN IF n = 0
           THEN history_output.some = NoHistoryText
           ELSE history_output.some = join_lines(LinesOf(n - shown + 1, n))

\* C11 witness: the display was taken of a log of more than ten entries
\* whose oldest entry is not the one the display starts with.
C11_Witness ==
    /\ HistoryShown
    /\ Len(execution_history) > 10
    /\ execution_history[1] # execution_history[Len(execution_history) - 9]

\* older is an initial part of newer.
IsPrefix(older, newer) ==
    /\ Len(older) <= Len(newer)
    /\ SubSeq(newer, 1, Len(older)) = older

\* C12: the log is append-only.  process_command at most adds one entry at
\* the tail and leaves the entries before it as they were, also beyond ten
\* entries; the history display leaves the log unchanged; entries are
\* removed only by clear_history.
C12_HistoryIsAppendOnly ==
    [][/\ (\E c \in HistoryCommands : ProcessCommandWithin(c, ActuatorWorks, HistoryLimit)) =>
             /\ IsPrefix(execution_history, execution_history')
             /\ Len(execution_history') <= Len(execution_history) + 1
       /\ GetExecutionHistory => execution_history' = execution_history
       /\ ~IsPrefix(execution_history, execution_history') => ClearHistory]_vars

\* C12 witness: a log longer than the display window, holding different
\* entries, after a command was recorded.
C12_Witness ==
    /\ Len(execution_history) > HistoryWindow
    /\ \E i, j \in DOMAIN execution_history : execution_history[i] # execution_history[j]
    /\ ~HistoryShown
    /\ command = execution_history[Len(execution_history)][1]

\* Every call that arrived has returned.
AllReturned == \A i \in DOMAIN in_flight : in_flight[i].at = "returned"

\* The commands of a sequence of calls or of log entries, in order.
CommandsOf(entries, field) == [i \in DOMAIN entries |-> entries[i][field]]

\* The calls whose command was interpreted, in arrival order.
ParsedArrivals == SelectSeq(in_flight, LAMBDA call : call.parsed_intent # None)

\* C13 as stated: in every execution, also when process_command calls on
\* one session overlap, the log holds the parsed commands in the order in
\* which they arrived, one entry each, none lost and none twice.
C13_HistoryInArrivalOrder ==
    AllReturned =>
        CommandsOf(execution_history, 1) = CommandsOf(ParsedArrivals, "command")

\* The command was interpreted as a scroll in direction d, n times.
InterpretedAsScroll(d, n) ==
    /\ parsed_intent # None
    /\ parsed_intent.action_type = "scroll"
    /\ parsed_intent.parameters = [direction |-> d, clicks |-> n]

CountFirst(n, d) == "scroll " \o n \o " times " \o d
DirectionFirst(d, n) == "scroll " \o d \o " " \o n

\* C14 as stated: for every direction d and every count n, "scroll n times d"
\* and "scroll d n" are interpreted as the same scroll intent with direction
\* d and repeat count n, and "scroll d" is interpreted with repeat count 3.
C14_ScrollFormsAgree ==
    Interpreted =>
        \A d \in Directions :
            /\ command = "scroll " \o d => InterpretedAsScroll(d, 3)
            /\ \A n \in Counts :
                   command \in {CountFirst(n, d), DirectionFirst(d, n)} =>
                       InterpretedAsScroll(d, int(n))

\* C14 amended: the two forms agree for every count that int() converts; a
\* count it refuses (a digit run over the length limit) makes both forms
\* NoMatch.
C14_ScrollFormsAgreeWhenCountConverts ==
    Interpreted =>
        \A d \in Directions :
            /\ command = "scroll " \o d => InterpretedAsScroll(d, 3)
            /\ \A n \in Counts :
                   command \in {CountFirst(n, d), DirectionFirst(d, n)} =>
                       IF int_raises(n) THEN parsed_intent = None
                       ELSE InterpretedAsScroll(d, int(n))

\* C14 witness: a count-first command interpreted with its count and direction.
C14_Witness ==
    /\ Interpreted
    /\ command = CountFirst("12", "down")
    /\ InterpretedAsScroll("down", 12)

\* The forms of a single-key command for a key token.
SingleKeyForms(k) ==
    {v \o " " \o the \o k \o suffix :
        v \in {"press", "hit"}, the \in {"", "the "}, suffix \in {"", " key"}}

\* The command was interpreted as a press of one key.
InterpretedAsKey(key) ==
    /\ parsed_intent # None
    /\ parsed_intent.action_type = "key"
    /\ parsed_intent.parameters = [key |-> key]

\* The identifier the synonym table gives a token, the token itself without one.
KeyIdentifier(token) ==
    IF token \in DOMAIN single_key_mapping THEN single_key_mapping[token] ELSE token

\* C15: in a single-key command after "press" or "hit", a token is replaced
\* by the identifier the synonym table gives it, so two synonyms ("esc" and
\* "escape", "return" and "enter") yield the same key parameter, and a token
\* without a synonym is passed through in lower case.
C15_SingleKeySynonymsNormalized ==
    Interpreted =>
        /\ \A k \in KeyNames :
               Preprocessed \in SingleKeyForms(k) => InterpretedAsKey(KeyIdentifier(k))
        /\ Preprocessed \in SingleKeyForms("escape") \cup SingleKeyForms("esc") =>
               InterpretedAsKey("esc")
        /\ Preprocessed \in SingleKeyForms("return") \cup SingleKeyForms("enter") =>
               InterpretedAsKey("enter")
        /\ Preprocessed \in SingleKeyForms("q") => InterpretedAsKey("q")

\* C15 witness: a synonym in upper case was normalized.
C15_Witness ==
    /\ Interpreted
    /\ command = "HIT THE ESCAPE KEY"
    /\ InterpretedAsKey("esc")

\* _execute_action has returned.
DispatchReturned == result # None

\* C16: an intent whose category is none of click, type, key, scroll, move
\* and screenshot is dispatched to a failure result whose message names that
\* category, and no actuator operation is invoked.
C16_UnknownCategoryFailsWithoutActuator ==
    /\ parsed_intent \in DispatchIntents
    /\ DispatchReturned
    /\ parsed_intent.action_type \notin {"click", "type", "key", "scroll", "move", "screenshot"}
    => /\ result.success = FALSE
       /\ Contains(result.message, parsed_intent.action_type)
       /\ calls = <<>>

\* C16 witness: an intent of category "drag" with coordinates was dispatched.
C16_Witness ==
    /\ DispatchReturned
    /\ parsed_intent \in DispatchIntents
    /\ parsed_intent.action_type = "drag"
    /\ "x" \in DOMAIN parsed_intent.parameters
    /\ result.message = "Unknown action type: drag"
    /\ calls = <<>>

\* The parameters of the intent have exactly these names.
HasParameters(names) == DOMAIN parsed_intent.parameters = names

\* The rule that produced the intent is the double-click rule.
ByDoubleClickRule == Min(ExtractingRules) = DoubleClickRule

\* What C17 says of the categories other than move.
CompleteExceptMove ==
    /\ parsed_intent.action_type = "click" =>
          /\ IF ByDoubleClickRule
             THEN HasParameters({"x", "y", "button", "clicks"})
                  /\ parsed_intent.parameters.clicks = 2
             ELSE HasParameters({"x", "y", "button"})
          /\ parsed_intent.parameters.x \in Nat /\ parsed_intent.parameters.y \in Nat
          /\ parsed_intent.parameters.button \in {"left", "right"}
    /\ parsed_intent.action_type = "type" =>
          HasParameters({"text"}) /\ parsed_intent.parameters.text # ""
    /\ parsed_intent.action_type = "key" =>
          \/ HasParameters({"key"}) /\ parsed_intent.parameters.key # ""
          \/ /\ HasParameters({"keys"})
             /\ Len(parsed_intent.parameters.keys) = 2
             /\ \A i \in 1..2 : parsed_intent.parameters.keys[i] # ""
    /\ parsed_intent.action_type = "scroll" =>
          /\ HasParameters({"direction", "clicks"})
          /\ parsed_intent.parameters.direction \in {"up", "down"}
          /\ parsed_intent.parameters.clicks \in Nat
    /\ parsed_intent.action_type = "screenshot" => parsed_intent.parameters = EmptyDict
    /\ parsed_intent.action_type \in {"click", "type", "key", "scroll", "move", "screenshot"}

\* C17 as stated: every intent carries the complete parameter set of its
\* kind (click: x, y, button and for a double click only clicks=2; move: x,
\* y; type: text; key: key or a two-element keys; scroll: direction and
\* count; screenshot: nothing), and a command matching no rule is NoMatch.
C17_ParameterSetsAsListed ==
    Interpreted =>
        /\ parsed_intent # None =>
              /\ CompleteExceptMove
              /\ parsed_intent.action_type = "move" =>
                    /\ HasParameters({"x", "y"})
                    /\ parsed_intent.parameters.x \in Nat /\ parsed_intent.parameters.y \in Nat
        /\ MatchingRules = {} => parsed_intent = None

\* C17 amended: as stated, except that a move intent carries x, y and the
\* button tag "left" of the coordinate extractor it shares with click.
C17_CompleteParameterSets ==
    Interpreted =>
        /\ parsed_intent # None =>
              /\ CompleteExceptMove
              /\ parsed_intent.action_type = "move" =>
                    /\ HasParameters({"x", "y", "button"})
                    /\ parsed_intent.parameters.x \in Nat /\ parsed_intent.parameters.y \in Nat
                    /\ parsed_intent.parameters.button = "left"
        /\ MatchingRules = {} => parsed_intent = None

\* C17 witness: a move command was interpreted.
C17_Witness ==
    /\ Interpreted
    /\ command = "move cursor to position (300, 400)"
    /\ parsed_intent # None
    /\ parsed_intent.parameters = [x |-> 300, y |-> 400, button |-> "left"]

\* C18: every example string the catalogue lists under a category is
\* interpreted as an intent of that category.
C18_ExamplesAreInterpretedInTheirCategory ==
    Interpreted =>
        \A a \in DOMAIN get_action_examples :
            \A i \in DOMAIN get_action_examples[a] :
                command = get_action_examples[a][i] =>
                    /\ parsed_intent # None
                    /\ parsed_intent.action_type = a

\* C18 witness: the last example of the key category was interpreted as a key intent.
C18_Witness ==
    /\ Interpreted
    /\ command = "alt+tab"
    /\ command = get_action_examples.key[4]
    /\ parsed_intent # None
    /\ parsed_intent.action_type = "key"

\* C19: on one parser object, after any sequence of parse_command and
\* get_action_examples calls, get_action_examples has returned the catalogue
\* unchanged, and the last parse_command returned what a fresh parser
\* returns for the same command.
C19_ParserCallsAreIndependent ==
    /\ listed_examples # NotYet => listed_examples = Some(get_action_examples)
    /\ parsed_intent # NotYet => parsed_intent = parse_command(command)

\* C19 witness: the catalogue was listed and a command was interpreted into
\* an intent on the same object.
C19_Witness ==
    /\ listed_examples = Some(get_action_examples)
    /\ parsed_intent # NotYet
    /\ parsed_intent # None
    /\ parsed_intent = parse_command(command)
    /\ parsed_intent.action_type = "scroll"

\* The maximal runs of digits of s from pos on, in order, as written.
RECURSIVE DigitRuns(_, _)
DigitRuns(s, pos) ==
    IF pos > Len(s) THEN <<>>
    ELSE IF Char(s, pos) \in DigitSet
    THEN <<Substr(s, pos, pos + RunLen(s, pos, "d") - 1)>>
         \o DigitRuns(s, pos + RunLen(s, pos, "d"))
    ELSE DigitRuns(s, pos + 1)

\* The number a run of digits denotes, read from its first digit on.
RECURSIVE DecimalValue(_, _)
DecimalValue(digits, sofar) ==
    IF digits = "" THEN sofar
    ELSE DecimalValue(Substr(digits, 2, Len(digits)), 10 * sofar + DigitValue[Char(digits, 1)])

\* The actuator calls of the dispatcher that take a position.
PositionCalls ==
    SelectSeq(DispatchCalls, LAMBDA c : c.op \in {"click_at_position", "move_mouse"})

\* C20: when a command that holds exactly two integers is interpreted as a
\* click or a move, x and y of the intent are these two integers in the
\* order written, and the dispatcher calls the actuator with exactly these
\* values, within the screen or not.
C20_CoordinatesAsWritten ==
    (/\ Dispatched
     /\ parsed_intent.action_type \in {"click", "move"}
     /\ Len(DigitRuns(command, 1)) = 2) =>
        LET written == DigitRuns(command, 1)
            x == DecimalValue(written[1], 0)
            y == DecimalValue(written[2], 0)
        IN /\ parsed_intent.parameters.x = x
           /\ parsed_intent.parameters.y = y
           /\ PositionCalls # <<>>
           /\ DispatchCalls[1] = PositionCalls[1]
           /\ \A i \in DOMAIN PositionCalls :
                  /\ PositionCalls[i].args.x = x
                  /\ PositionCalls[i].args.y = y

\* C20 witness: a click outside the screen was dispatched with the
\* coordinates as written, and the actuator refused it.
C20_Witness ==
    /\ Dispatched
    /\ command = "right click at 1920, 1081"
    /\ parsed_intent.action_type = "click"
    /\ parsed_intent.parameters.x = 1920
    /\ parsed_intent.parameters.y = 1081
    /\ Len(PositionCalls) = 1
    /\ PositionCalls[1].args.x = 1920
    /\ PositionCalls[1].args.y = 1081
    /\ ~PositionCalls[1].raised
    /\ ~PositionCalls[1].value.success

\* The take_screenshot calls the command led to, by whichever method.
ScreenshotRequests == SelectSeq(calls, LAMBDA c : c.op = "take_screenshot")

\* C21 as stated: processing a screenshot command requests exactly one
\* screenshot from the actuator; the result is a success whose message holds
\* the path the actuator returned, and the fixed failure result when the
\* actuator returned none.
C21_ScreenshotRequestedOnce ==
    (Dispatched /\ parsed_intent.action_type = "screenshot") =>
        /\ Len(ScreenshotRequests) = 1
        /\ LET shot == ScreenshotRequests[1]
           IN /\ (~shot.raised /\ shot.value # None) =>
                     /\ result.success
                     /\ result.action_type = "screenshot"
                     /\ Contains(result.message, shot.value.some)
              /\ (~shot.raised /\ shot.value = None) =>
                     result = ActionResult(FALSE, "Failed to take screenshot", "screenshot")

\* The last actuator call was a position call (click_at_position, move_mouse).
PositionCalled ==
    /\ calls # <<>>
    /\ calls[1].caller = "client"
    /\ calls[1].op \in {"click_at_position", "move_mouse"}

\* (x, y) is a position of a screen of the given size.
OnScreen(x, y, size) == x \in 0..(size[1] - 1) /\ y \in 0..(size[2] - 1)

\* The pointer primitives the last call reached.
PointerActions == SelectSeq(calls, LAMBDA c : c.op \in {"pyautogui.click", "pyautogui.moveTo"})

\* C22 as stated: a click or move whose target is not a position of the
\* screen (x outside 0..width-1 or y outside 0..height-1) returns a failure
\* result and reaches no pointer primitive.
C22_OffScreenTargetsAreRefused ==
    (PositionCalled /\ ~OnScreen(calls[1].args.x, calls[1].args.y, get_screen_size)) =>
        /\ ~result.success
        /\ PointerActions = <<>>

\* The one actuator call an intent of a recognized category selects.
SelectedCall(intent) ==
    LET p == intent.parameters
    IN IF intent.action_type = "click"
       THEN [op |-> "click_at_position", args |-> [x |-> p.x, y |-> p.y, button |-> p.button]]
       ELSE IF intent.action_type = "type"
       THEN [op |-> "type_text", args |-> [text |-> p.text]]
       ELSE IF intent.action_type = "key"
       THEN (IF "keys" \in DOMAIN p /\ Len(p.keys) = 2
             THEN [op |-> "key_combination", args |-> [keys |-> <<p.keys[1], p.keys[2]>>]]
             ELSE [op |-> "press_key", args |-> [key |-> p.key]])
       ELSE IF intent.action_type = "scroll"
       THEN [op |-> "scroll", args |-> [direction |-> p.direction, clicks |-> p.clicks]]
       ELSE IF intent.action_type = "move"
       THEN [op |-> "move_mouse", args |-> [x |-> p.x, y |-> p.y]]
       ELSE [op |-> "take_screenshot", args |-> EmptyDict]

ProcessCommandStep ==
    /\ history_output' = NotYet
    /\ ~ClearHistory
    /\ returned' # NotYet

\* C24: process_command adds exactly one entry, the command as entered with
\* the dispatcher's result, at the tail of the log when the command is
\* interpreted to an intent, whatever the result; when the command is empty,
\* all-whitespace or unrecognized it leaves the log as it was and makes no
\* actuator call.
C24_OneEntryPerInterpretedCommand ==
    [][ProcessCommandStep =>
          /\ strip(command') = "" => parsed_intent' = None
          /\ parsed_intent' # None =>
                 /\ result' # None
                 /\ execution_history' = Append(execution_history, <<command', result'>>)
          /\ parsed_intent' = None =>
                 /\ execution_history' = execution_history
                 /\ calls' = <<>>
                 /\ result' = None]_vars

\* C24 witness: a command whose dispatch failed is the last entry of a log
\* that held an entry before it.
C24_Witness ==
    /\ Dispatched
    /\ ~result.success
    /\ Len(execution_history) = 2
    /\ execution_history[2] = <<command, result>>
    /\ history_output = NotYet

\* A double-click intent has been dispatched.
DoubleClickDispatched ==
    /\ parsed_intent \in DispatchIntents
    /\ DispatchReturned
    /\ parsed_intent.action_type = "click"
    /\ dict_get(parsed_intent.parameters, "clicks", 1) = 2

\* C25: when the first click call of a double click raises, it is the only
\* call made and the result is a failure of category click; wherever a
\* second click was issued, the first call had returned a value.
C25_NoSecondClickAfterRaise ==
    DoubleClickDispatched =>
        /\ calls # <<>>
        /\ calls[1].op = "click_at_position"
        /\ calls[1].raised =>
               /\ Len(calls) = 1
               /\ ~result.success
               /\ result.action_type = "click"
        /\ (\E i \in 2..Len(calls) : calls[i].op = "click_at_position") =>
               /\ ~calls[1].raised
               /\ calls[1].value \in
                      {click_at_position(automation_engine, calls[1].args.x, calls[1].args.y,
                                         calls[1].args.button, os) : os \in Outcomes}

\* C25 witness: the first click of a double click raised.
C25_Witness ==
    /\ DoubleClickDispatched
    /\ calls[1].raised
    /\ Len(calls) = 1
    /\ result = ActionResult(FALSE, "Execution error: " \o ErrorText, "click")

\* C26 as stated: the result the dispatcher returns for an intent of a
\* recognized category carries that category, whether the actuator call
\* succeeded or failed.
C26_ResultCarriesIntentCategory ==
    (/\ parsed_intent \in DispatchIntents
     /\ DispatchReturned
     /\ parsed_intent.action_type \in {"click", "type", "key", "scroll", "move", "screenshot"}) =>
        result.action_type = parsed_intent.action_type

\* The rules of the traversal whose pattern occurs in the preprocessed text s.
RulesMatching(s) == {i \in DOMAIN Traversal : re_search(Traversal[i].pattern, s).ok}

\* The commands the rules are probed with: the catalogue's examples, every
\* two-key combination with and without "press", every scroll and
\* screenshot command, and commands no rule matches.
ProbeCommands ==
    ExampleCommands \cup ComboUtterances \cup ScrollUtterances \cup ScreenshotUtterances
    \cup OtherUtterances

\* For every probe command, the rule that is the first to match it and
\* produces its intent; 0 when no rule matches or the first match fails
\* extraction.
ProducingRule ==
    [c \in ProbeCommands |->
        LET s == strip(lower(c))
            matching == RulesMatching(s)
        IN IF matching = {} THEN 0
           ELSE IF _extract_parameters(re_search(Traversal[Min(matching)].pattern, s),
                                       Traversal[Min(matching)].pattern_type,
                                       Traversal[Min(matching)].action_type) = None
           THEN 0
           ELSE Min(matching)]

\* The rules that are the first match of no command.
ShadowedRules == {r \in DOMAIN Traversal : \A c \in ProbeCommands : ProducingRule[c] # r}

\* C27 as stated: no rule of the table is shadowed by an earlier one; for
\* every rule there is a command for which that rule is the first matching
\* rule of the traversal and produces the intent.
C27_NoRuleIsShadowed ==
    (Interpreted /\ command \in ProbeCommands) => ShadowedRules = {}

\* What the given engine returns for an actuator call with these arguments
\* when the OS primitive has the outcome os.
Perform(engine, op, args, os) ==
    IF op = "click_at_position" THEN click_at_position(engine, args.x, args.y, args.button, os)
    ELSE IF op = "move_mouse" THEN move_mouse(engine, args.x, args.y, os)
    ELSE IF op = "type_text" THEN type_text(engine, args.text, os)
    ELSE IF op = "press_key" THEN press_key(engine, args.key, os)
    ELSE IF op = "key_combination" THEN key_combination(engine, args.keys, os)
    ELSE scroll(engine, args.direction, args.clicks, os)

\* An actuator call was made and no OS primitive failed in it.
CalledWithoutOsError ==
    /\ calls # <<>>
    /\ calls[1].caller = "client"
    /\ result = Perform(automation_engine, calls[1].op, calls[1].args, "ok")

\* C28: for a call in which no OS-level exception occurs, the real and the
\* simulated engine return results with the same success flag and the same
\* category, for the same arguments and screen size.
C28_EnginesAgree ==
    CalledWithoutOsError =>
        \A engine \in {"AutomationEngine", "MockAutomationEngine"} :
            LET other == Perform(engine, calls[1].op, calls[1].args, "ok")
            IN /\ other.success = result.success
               /\ other.action_type = result.action_type

\* C28 witness: the simulated engine accepted a scroll whose direction is
\* written "Up", as the real engine does.
C28_Witness ==
    /\ CalledWithoutOsError
    /\ automation_engine = "MockAutomationEngine"
    /\ calls[1].op = "scroll"
    /\ calls[1].args.direction = "Up"
    /\ result.success
    /\ Perform("AutomationEngine", "scroll", calls[1].args, "ok").success

\* The dispatcher returned a result and it is a success.
DispatchSucceeded == result # None /\ result.success

\* C29: when process_command returns, its status label is the success label
\* exactly when the dispatched result is a success; it is the error label
\* for empty input and for every failed dispatch, the unable-to-parse error
\* label for unrecognized input; and the success flag the HTTP layer derives
\* from the label equals the success flag of the result.
C29_LabelFollowsResult ==
    (Processed /\ ~returned.raised) =>
        /\ returned.status \in {SuccessLabel, ErrorLabel, UnableLabel}
        /\ returned.status = SuccessLabel <=> DispatchSucceeded
        /\ strip(command) = "" => returned.status = ErrorLabel
        /\ (strip(command) # "" /\ parsed_intent = None) => returned.status = UnableLabel
        /\ (result # None /\ ~result.success) => returned.status = ErrorLabel
        /\ interface = "SimpleWebInterface" =>
               handle_command(returned).success = DispatchSucceeded

\* C29 witness: an unrecognized command was answered with the
\* unable-to-parse label, from which the HTTP layer derives no success.
C29_Witness ==
    /\ Processed
    /\ interface = "SimpleWebInterface"
    /\ command = "do something vague"
    /\ returned.status = UnableLabel
    /\ result = None
    /\ ~handle_command(returned).success

\* The last request accepted is at the given position.
RequestAt(position) == in_flight # <<>> /\ in_flight[Len(in_flight)].at = position

\* C30: in the HTTP server the session that serves a request starts with
\* an empty log; when the request ends the log holds at most one entry, the
\* one of this request, so no entry of an earlier request is visible.
C30_EveryRequestStartsWithEmptyHistory ==
    /\ RequestAt("constructed") => execution_history = <<>>
    /\ RequestAt("responded") =>
           /\ Len(execution_history) <= 1
           /\ \A i \in DOMAIN execution_history :
                  execution_history[i] = <<in_flight[Len(in_flight)].command, result>>

\* C30 witness: a request was dispatched with success, so recorded, and
\* the handler of the next request has been constructed with an empty log.
C30_Witness ==
    /\ Len(in_flight) = 2
    /\ in_flight[1].command = "press esc"
    /\ in_flight[1].response.success
    /\ RequestAt("constructed")
    /\ execution_history = <<>>

====
